---------------------------- MODULE Spec2Model ----------------------------
(***************************************************************************)
(* Othello-Dojo: the board engine (src/lib/othello.ts) and the depth-      *)
(* limited alpha-beta search (src/lib/minimax.ts).                         *)
(*                                                                         *)
(* A board is a function from row index to a function from column index   *)
(* to a cell, as the nested JavaScript arrays are.  A library call is      *)
(* modelled with its outcome: either it threw (reading a property of       *)
(* undefined is a TypeError) or it returned a value; a call that receives  *)
(* a board also reports the content of that argument object after the      *)
(* call.                                                                   *)
(*                                                                         *)
(* Values that the code binds once with const and reads several times are  *)
(* passed as operator arguments, so that they are computed once.           *)
(***************************************************************************)
EXTENDS Integers, Sequences, FiniteSets, TLC

\* ------------------------------------------------------------------ bounds
\* Number of applyMove results the caller adopts, starting from a seed board.
MaxMoves == 2
\* Largest search depth handed to minimax on a seed board; a position k legal
\* moves from its seed is searched to depth MaxDepth - k at most.
MaxDepth == 2
\* Legal moves played from a seed board before a search is run on the position.
MaxSearchMoves == 1
\* A search with a negative depth stops only where the mover has no move: it is
\* run on boards with at most this many empty cells.
MaxEndgameEmpty == 1

\* Largest difficulty handed to the move-rating flow.
MaxDifficulty == 2

\* Moves made on the game page, by the user and the AI, and undos, together.
MaxGameMoves == 3

\* Largest number of moves asked of the advanced undo.
MaxUndo == 2

\* --------------------------------------------------------------- constants
BOARD_SIZE == 8

DIRECTIONS ==
  << <<-1, -1>>, <<-1, 0>>, <<-1, 1>>,
     <<0, -1>>,             <<0, 1>>,
     <<1, -1>>,  <<1, 0>>,  <<1, 1>> >>

Players == {"black", "white"}
CellStates == {"empty", "black", "white"}
Rows == 0 .. (BOARD_SIZE - 1)
\* Coordinates handed to the library: the board and one step beyond each side.
Coords == -1 .. BOARD_SIZE

Pos(r, c) == [row |-> r, col |-> c]

\* ------------------------------------------------------------ call outcomes
Returned(v) == [threw |-> FALSE, value |-> v]
TypeError == [threw |-> TRUE, value |-> "TypeError"]

\* board[row][col] as JavaScript evaluates it: a missing row makes the second
\* index throw, a missing column yields undefined.
ReadCell(board, row, col) ==
  IF row \notin DOMAIN board THEN TypeError
  ELSE IF col \notin DOMAIN board[row] THEN Returned("undefined")
  ELSE Returned(board[row][col])

\* newBoard[row][col] = v on a row that exists (an index outside the row adds
\* a property to the row array).
WriteCell(board, row, col, v) ==
  [board EXCEPT ![row] =
     [i \in (DOMAIN board[row]) \cup {col} |-> IF i = col THEN v ELSE board[row][i]]]

\* --------------------------------------------------------------- othello.ts
EmptyBoard == [r \in Rows |-> [c \in Rows |-> "empty"]]

\* The four starting discs with the two colours exchanged.
createInitialBoardSwapped ==
  [EmptyBoard EXCEPT ![3][3] = "black", ![3][4] = "white",
                     ![4][3] = "white", ![4][4] = "black"]

createInitialBoard ==
  [EmptyBoard EXCEPT ![3][3] = "white", ![3][4] = "black",
                     ![4][3] = "black", ![4][4] = "white"]

getOpponent(player) == IF player = "black" THEN "white" ELSE "black"

isInsideBoard(row, col) ==
  row >= 0 /\ row < BOARD_SIZE /\ col >= 0 /\ col < BOARD_SIZE

\* The while loop of getFlipsForMove: walks from (r, c) along (dr, dc) over the
\* opponent's discs; yields the cell the walk stopped at and the discs passed.
RECURSIVE ScanRun(_, _, _, _, _, _, _)
ScanRun(board, opponent, r, c, dr, dc, potentialFlips) ==
  IF isInsideBoard(r, c) /\ board[r][c] = opponent
  THEN ScanRun(board, opponent, r + dr, c + dc, dr, dc,
               Append(potentialFlips, Pos(r, c)))
  ELSE [r |-> r, c |-> c, potentialFlips |-> potentialFlips]

\* A scanned run counted although no disc of the player ends it.
CloseRunUnchecked(board, player, run) ==
  IF isInsideBoard(run.r, run.c) THEN run.potentialFlips ELSE <<>>

\* The test after the while loop: the run's discs are pushed when the walk
\* stopped inside the board on a disc of the player.
CloseRun(board, player, run) ==
  IF isInsideBoard(run.r, run.c) /\ board[run.r][run.c] = player
  THEN run.potentialFlips
  ELSE <<>>

\* The for loop of getFlipsForMove over DIRECTIONS[d .. 8].
RECURSIVE ScanDirections(_, _, _, _, _, _)
ScanDirections(board, player, row, col, d, tilesToFlip) ==
  IF d > Len(DIRECTIONS) THEN tilesToFlip
  ELSE ScanDirections(board, player, row, col, d + 1,
         tilesToFlip \o
         CloseRun(board, player,
                  ScanRun(board, getOpponent(player),
                          row + DIRECTIONS[d][1], col + DIRECTIONS[d][2],
                          DIRECTIONS[d][1], DIRECTIONS[d][2], <<>>)))

getFlipsForMove(board, player, row, col) ==
  IF ReadCell(board, row, col).threw THEN TypeError
  ELSE IF ReadCell(board, row, col).value # "empty" THEN Returned(<<>>)
  ELSE Returned(ScanDirections(board, player, row, col, 1, <<>>))

\* flips.length >= 0 in place of flips.length > 0
LengthNonNegative(flips) ==
  IF flips.threw THEN TypeError ELSE Returned(Len(flips.value) >= 0)

\* flips.length > 0, an exception passing through
LengthPositive(flips) ==
  IF flips.threw THEN TypeError ELSE Returned(Len(flips.value) > 0)

isValidMove(board, player, row, col) ==
  LengthPositive(getFlipsForMove(board, player, row, col))

\* The two loops of getValidMoves nested the other way round: column by column.
ScanOrderColumnMajor ==
  [k \in 1 .. (BOARD_SIZE * BOARD_SIZE) |->
     Pos((k - 1) % BOARD_SIZE, (k - 1) \div BOARD_SIZE)]

\* The cells in the order the nested for loops of getValidMoves visit them:
\* r = 0 .. 7 and, within a row, c = 0 .. 7.
ScanOrder ==
  [k \in 1 .. (BOARD_SIZE * BOARD_SIZE) |->
     Pos((k - 1) \div BOARD_SIZE, (k - 1) % BOARD_SIZE)]

\* validMoves.push({row: r, col: c}) for each visited cell isValidMove accepts
getValidMoves(board, player) ==
  SelectSeq(ScanOrder, LAMBDA m : isValidMove(board, player, m.row, m.col).value)

\* The forEach of applyMove leaving the first tile as it was.
RECURSIVE FlipTilesFromSecond(_, _, _, _)
FlipTilesFromSecond(newBoard, player, tilesToFlip, i) ==
  IF i + 1 > Len(tilesToFlip) THEN newBoard
  ELSE FlipTilesFromSecond(
         WriteCell(newBoard, tilesToFlip[i + 1].row, tilesToFlip[i + 1].col, player),
         player, tilesToFlip, i + 1)

\* tilesToFlip.forEach(tile => newBoard[tile.row][tile.col] = player)
RECURSIVE FlipTiles(_, _, _, _)
FlipTiles(newBoard, player, tilesToFlip, i) ==
  IF i > Len(tilesToFlip) THEN newBoard
  ELSE FlipTiles(WriteCell(newBoard, tilesToFlip[i].row, tilesToFlip[i].col, player),
                 player, tilesToFlip, i + 1)

\* The outcome of an applyMove that wrote newBoard: value is the board
\* returned, same tells whether the returned object is the argument object,
\* arg is the content of the argument object after the call.
Placed(board, newBoard) ==
  [threw |-> FALSE, value |-> newBoard, same |-> FALSE, arg |-> board]

\* The outcome of an applyMove that wrote into the caller's array.
PlacedInPlace(newBoard) ==
  [threw |-> FALSE, value |-> newBoard, same |-> TRUE, arg |-> newBoard]

\* applyMove after its first two lines, writing to the argument array itself.
PlaceAndFlipInPlace(board, player, row, col, tilesToFlip) ==
  IF tilesToFlip.threw
  THEN [threw |-> TRUE, value |-> "TypeError", same |-> FALSE, arg |-> board]
  ELSE IF Len(tilesToFlip.value) = 0 /\ ReadCell(board, row, col).value = "empty"
  THEN [threw |-> FALSE, value |-> board, same |-> TRUE, arg |-> board]
  ELSE PlacedInPlace(FlipTiles(WriteCell(board, row, col, player), player,
                               tilesToFlip.value, 1))

\* applyMove after its first two lines, without the early return.
PlaceAndFlipAlways(board, player, row, col, tilesToFlip) ==
  IF tilesToFlip.threw
  THEN [threw |-> TRUE, value |-> "TypeError", same |-> FALSE, arg |-> board]
  ELSE Placed(board, FlipTiles(WriteCell(board, row, col, player), player,
                               tilesToFlip.value, 1))

\* applyMove after its first two lines, the disc placed one column to the left.
PlaceAndFlipShifted(board, player, row, col, tilesToFlip) ==
  IF tilesToFlip.threw
  THEN [threw |-> TRUE, value |-> "TypeError", same |-> FALSE, arg |-> board]
  ELSE IF Len(tilesToFlip.value) = 0 /\ ReadCell(board, row, col).value = "empty"
  THEN [threw |-> FALSE, value |-> board, same |-> TRUE, arg |-> board]
  ELSE Placed(board, FlipTiles(WriteCell(board, row, col - 1, player), player,
                               tilesToFlip.value, 1))

\* applyMove after its first two lines (newBoard is a copy of board, and
\* tilesToFlip the outcome of getFlipsForMove).
PlaceAndFlip(board, player, row, col, tilesToFlip) ==
  IF tilesToFlip.threw
  THEN [threw |-> TRUE, value |-> "TypeError", same |-> FALSE, arg |-> board]
  ELSE IF Len(tilesToFlip.value) = 0 /\ ReadCell(board, row, col).value = "empty"
  THEN [threw |-> FALSE, value |-> board, same |-> TRUE, arg |-> board]
  ELSE Placed(board, FlipTiles(WriteCell(board, row, col, player), player,
                               tilesToFlip.value, 1))

applyMove(board, player, row, col) ==
  PlaceAndFlip(board, player, row, col, getFlipsForMove(board, player, row, col))

\* Number of cells of the 8x8 grid holding v.
CountCells(board, v) ==
  Cardinality({p \in Rows \X Rows : board[p[1]][p[2]] = v})

getScore(board) ==
  [black |-> CountCells(board, "black"), white |-> CountCells(board, "white")]

CellChar(cell) ==
  IF cell = "black" THEN "B" ELSE IF cell = "white" THEN "W" ELSE "_"

\* row.map(...).join(''), as the sequence of its characters
RowToString(row) == [k \in 1 .. BOARD_SIZE |-> CellChar(row[k - 1])]

\* board.map(...).join('\n'), as the sequence of its characters
RECURSIVE JoinRows(_, _)
JoinRows(board, r) ==
  IF r >= BOARD_SIZE THEN <<>>
  ELSE (IF r > 0 THEN <<"\n">> ELSE <<>>) \o RowToString(board[r]) \o JoinRows(board, r + 1)

boardToString(board) == JoinRows(board, 0)

\* --------------------------------------------------------------- minimax.ts
\* Stands for JavaScript's Infinity: larger than any value evaluateBoard yields.
Infinity == 1000000

\* The absent move of a search result.
null == [null |-> TRUE]

cornerWeight == 25
mobilityWeight == 5
edgeWeight == 5

\* +weight when the cell is the player's, the opponent's cell left out.
OwnedIgnoringOpponent(board, player, r, c, weight) ==
  IF board[r][c] = player THEN weight ELSE 0

\* +weight when the cell is the player's, -weight when it is the opponent's.
Owned(board, player, r, c, weight) ==
  IF board[r][c] = player THEN weight
  ELSE IF board[r][c] = getOpponent(player) THEN -weight
  ELSE 0

\* score[player] - score[opponent]
PieceDifference(score, player) == score[player] - score[getOpponent(player)]

\* The corner loop without its else-if branch: the opponent's corners left out.
CornerBonusOwnOnly(board, player) ==
  OwnedIgnoringOpponent(board, player, 0, 0, cornerWeight)
  + OwnedIgnoringOpponent(board, player, 0, 7, cornerWeight)
  + OwnedIgnoringOpponent(board, player, 7, 0, cornerWeight)
  + OwnedIgnoringOpponent(board, player, 7, 7, cornerWeight)

\* The forEach of evaluateBoard over the four corners.
CornerBonus(board, player) ==
  Owned(board, player, 0, 0, cornerWeight) + Owned(board, player, 0, 7, cornerWeight)
  + Owned(board, player, 7, 0, cornerWeight) + Owned(board, player, 7, 7, cornerWeight)

\* playerMoves alone: the opponent's moves not taken off.
MobilityOwnOnly(board, player) == Len(getValidMoves(board, player))

\* playerMoves - opponentMoves
Mobility(board, player) ==
  Len(getValidMoves(board, player)) - Len(getValidMoves(board, getOpponent(player)))

\* The edge loop run over i = 0 .. 7, the corners counted as edge cells too.
RECURSIVE EdgeBonusFromZero(_, _, _)
EdgeBonusFromZero(board, player, i) ==
  IF i >= 9 THEN 0
  ELSE Owned(board, player, 0, i - 1, edgeWeight) + Owned(board, player, 7, i - 1, edgeWeight)
       + Owned(board, player, i - 1, 0, edgeWeight) + Owned(board, player, i - 1, 7, edgeWeight)
       + EdgeBonusFromZero(board, player, i + 1)

\* The for loop of evaluateBoard over the non-corner edge cells, i = 1 .. 6.
RECURSIVE EdgeBonus(_, _, _)
EdgeBonus(board, player, i) ==
  IF i >= 7 THEN 0
  ELSE Owned(board, player, 0, i, edgeWeight) + Owned(board, player, 7, i, edgeWeight)
       + Owned(board, player, i, 0, edgeWeight) + Owned(board, player, i, 7, edgeWeight)
       + EdgeBonus(board, player, i + 1)

\* evaluateBoard with a fifth term: 30 off for a cell diagonally next to an
\* empty corner held by the player, 30 on when the opponent holds it.
evaluateBoardWithXSquare(board, player) ==
  PieceDifference(getScore(board), player) + CornerBonus(board, player)
  + (Mobility(board, player) * mobilityWeight) + EdgeBonus(board, player, 1)
  - (IF board[0][0] = "empty" THEN Owned(board, player, 1, 1, 30) ELSE 0)
  - (IF board[0][7] = "empty" THEN Owned(board, player, 1, 6, 30) ELSE 0)
  - (IF board[7][0] = "empty" THEN Owned(board, player, 6, 1, 30) ELSE 0)
  - (IF board[7][7] = "empty" THEN Owned(board, player, 6, 6, 30) ELSE 0)

evaluateBoard(board, player) ==
  PieceDifference(getScore(board), player) + CornerBonus(board, player)
  + (Mobility(board, player) * mobilityWeight) + EdgeBonus(board, player, 1)

MathMax(a, b) == IF a >= b THEN a ELSE b
MathMin(a, b) == IF a <= b THEN a ELSE b

RECURSIVE minimax(_, _, _, _, _, _)

\* What a call that makes no recursive call adds to the record of the search:
\* nesting is the longest chain of recursive calls below a call, threw tells
\* whether an exception came up.
NoTrace == [nesting |-> 0, threw |-> FALSE]

\* The update of bestValue and bestMove with >= and <= in place of > and <.
UpdateBestNonStrict(isMaximizingPlayer, move, alpha, beta, bestValue, bestMove, pruned, trace, applied, child) ==
  LET better == IF isMaximizingPlayer THEN child.score >= bestValue
                ELSE child.score <= bestValue
      newValue == IF better THEN child.score ELSE bestValue
  IN [bestValue |-> newValue,
      bestMove |-> IF better THEN move ELSE bestMove,
      alpha |-> IF isMaximizingPlayer THEN MathMax(alpha, newValue) ELSE alpha,
      beta |-> IF isMaximizingPlayer THEN beta ELSE MathMin(beta, newValue),
      boardAfter |-> IF applied.same THEN child.arg ELSE applied.arg,
      pruned |-> pruned + child.pruned,
      trace |-> [nesting |-> MathMax(trace.nesting, child.trace.nesting + 1),
                threw |-> trace.threw \/ applied.threw \/ child.trace.threw]]

\* The rest of the loop body once the child has been searched: the update of
\* bestValue, bestMove, alpha and beta.  boardAfter is the content of the
\* argument board after the pass, pruned the number of moves skipped by break.
UpdateBest(isMaximizingPlayer, move, alpha, beta, bestValue, bestMove, pruned, trace, applied, child) ==
  LET better == IF isMaximizingPlayer THEN child.score > bestValue
                ELSE child.score < bestValue
      newValue == IF better THEN child.score ELSE bestValue
  IN [bestValue |-> newValue,
      bestMove |-> IF better THEN move ELSE bestMove,
      alpha |-> IF isMaximizingPlayer THEN MathMax(alpha, newValue) ELSE alpha,
      beta |-> IF isMaximizingPlayer THEN beta ELSE MathMin(beta, newValue),
      boardAfter |-> IF applied.same THEN child.arg ELSE applied.arg,
      pruned |-> pruned + child.pruned,
      trace |-> [nesting |-> MathMax(trace.nesting, child.trace.nesting + 1),
                threw |-> trace.threw \/ applied.threw \/ child.trace.threw]]

\* The recursive call made without flipping isMaximizingPlayer.
SearchChildSameSide(depth, isMaximizingPlayer, player, move, alpha, beta, bestValue, bestMove, pruned, trace, applied) ==
  UpdateBest(isMaximizingPlayer, move, alpha, beta, bestValue, bestMove, pruned,
             trace, applied,
             minimax(applied.value, depth - 1, isMaximizingPlayer, player, alpha, beta))

\* const { score } = minimax(newBoard, depth - 1, !isMaximizingPlayer, player,
\* alpha, beta), newBoard being the board applyMove returned
SearchChild(depth, isMaximizingPlayer, player, move, alpha, beta, bestValue, bestMove, pruned, trace, applied) ==
  UpdateBest(isMaximizingPlayer, move, alpha, beta, bestValue, bestMove, pruned,
             trace, applied,
             minimax(applied.value, depth - 1, ~isMaximizingPlayer, player, alpha, beta))

\* One pass through the body of minimax's for loop, for the move at hand.
SearchMove(board, depth, isMaximizingPlayer, player, move, alpha, beta, bestValue, bestMove, pruned, trace) ==
  SearchChild(depth, isMaximizingPlayer, player, move, alpha, beta, bestValue,
              bestMove, pruned, trace,
              applyMove(board,
                        IF isMaximizingPlayer THEN player ELSE getOpponent(player),
                        move.row, move.col))

RECURSIVE SearchMoves(_, _, _, _, _, _, _, _, _, _, _, _)

\* The loop's break taken when beta >= alpha.
NextMoveCutReversed(s, depth, isMaximizingPlayer, player, moves, i) ==
  IF s.beta >= s.alpha
  THEN [score |-> s.bestValue, move |-> s.bestMove, arg |-> s.boardAfter,
        pruned |-> s.pruned + (Len(moves) + 1 - i), trace |-> s.trace]
  ELSE SearchMoves(s.boardAfter, depth, isMaximizingPlayer, player, moves, i,
                   s.alpha, s.beta, s.bestValue, s.bestMove, s.pruned, s.trace)

\* The end of a pass s through the loop body: break when beta <= alpha, else
\* go on with moves[i].
NextMove(s, depth, isMaximizingPlayer, player, moves, i) ==
  IF s.beta <= s.alpha
  THEN [score |-> s.bestValue, move |-> s.bestMove, arg |-> s.boardAfter,
        pruned |-> s.pruned + (Len(moves) + 1 - i), trace |-> s.trace]
  ELSE SearchMoves(s.boardAfter, depth, isMaximizingPlayer, player, moves, i,
                   s.alpha, s.beta, s.bestValue, s.bestMove, s.pruned, s.trace)

\* The for loop of minimax from moves[i] on.
SearchMoves(board, depth, isMaximizingPlayer, player, moves, i, alpha, beta, bestValue, bestMove, pruned, trace) ==
  IF i > Len(moves)
  THEN [score |-> bestValue, move |-> bestMove, arg |-> board, pruned |-> pruned,
        trace |-> trace]
  ELSE NextMove(SearchMove(board, depth, isMaximizingPlayer, player, moves[i],
                           alpha, beta, bestValue, bestMove, pruned, trace),
                depth, isMaximizingPlayer, player, moves, i + 1)

\* minimax's base case handing back the first move instead of null.
SearchFromFirstMove(board, depth, isMaximizingPlayer, player, alpha, beta, moves) ==
  IF depth = 0 \/ Len(moves) = 0
  THEN [score |-> evaluateBoard(board, player),
        move |-> IF Len(moves) = 0 THEN null ELSE moves[1],
        arg |-> board, pruned |-> 0, trace |-> NoTrace]
  ELSE SearchMoves(board, depth, isMaximizingPlayer, player, moves, 1, alpha, beta,
                   IF isMaximizingPlayer THEN -Infinity ELSE Infinity, moves[1], 0,
                   NoTrace)

\* minimax searching a pass (the other player's reply on the same board) when
\* the mover has no move, instead of evaluating.
SearchFromPassing(board, depth, isMaximizingPlayer, player, alpha, beta, moves) ==
  IF depth = 0
  THEN [score |-> evaluateBoard(board, player), move |-> null, arg |-> board,
        pruned |-> 0, trace |-> NoTrace]
  ELSE IF Len(moves) = 0
  THEN [score |-> minimax(board, depth - 1, ~isMaximizingPlayer, player, alpha, beta).score,
        move |-> null, arg |-> board, pruned |-> 0, trace |-> NoTrace]
  ELSE SearchMoves(board, depth, isMaximizingPlayer, player, moves, 1, alpha, beta,
                   IF isMaximizingPlayer THEN -Infinity ELSE Infinity, moves[1], 0,
                   NoTrace)

\* minimax with its base case taken at depth 1 already.
SearchFromBaseAtOne(board, depth, isMaximizingPlayer, player, alpha, beta, moves) ==
  IF depth <= 1 \/ Len(moves) = 0
  THEN [score |-> evaluateBoard(board, player), move |-> null, arg |-> board,
        pruned |-> 0, trace |-> NoTrace]
  ELSE SearchMoves(board, depth, isMaximizingPlayer, player, moves, 1, alpha, beta,
                   IF isMaximizingPlayer THEN -Infinity ELSE Infinity, moves[1], 0,
                   NoTrace)

\* minimax with its base case taken below depth 0 only.
SearchFromBaseBelowZero(board, depth, isMaximizingPlayer, player, alpha, beta, moves) ==
  IF depth < 0 \/ Len(moves) = 0
  THEN [score |-> evaluateBoard(board, player), move |-> null, arg |-> board,
        pruned |-> 0, trace |-> NoTrace]
  ELSE SearchMoves(board, depth, isMaximizingPlayer, player, moves, 1, alpha, beta,
                   IF isMaximizingPlayer THEN -Infinity ELSE Infinity, moves[1], 0,
                   NoTrace)

\* minimax once moves = getValidMoves(board, currentPlayer) is known.
SearchFrom(board, depth, isMaximizingPlayer, player, alpha, beta, moves) ==
  IF depth = 0 \/ Len(moves) = 0
  THEN [score |-> evaluateBoard(board, player), move |-> null, arg |-> board,
        pruned |-> 0, trace |-> NoTrace]
  ELSE SearchMoves(board, depth, isMaximizingPlayer, player, moves, 1, alpha, beta,
                   IF isMaximizingPlayer THEN -Infinity ELSE Infinity, moves[1], 0,
                   NoTrace)

minimax(board, depth, isMaximizingPlayer, player, alpha, beta) ==
  SearchFrom(board, depth, isMaximizingPlayer, player, alpha, beta,
             getValidMoves(board,
                           IF isMaximizingPlayer THEN player ELSE getOpponent(player)))

\* ------------------------------------------------- the move-rating flow
\* The directions of the flow's own applyMove, in its order.
directions ==
  <<<<-1, -1>>, <<-1, 0>>, <<-1, 1>>, <<0, -1>>, <<0, 1>>, <<1, -1>>, <<1, 0>>, <<1, 1>>>>

\* The for loop of the flow's applyMove over directions[d .. 8]: the while
\* loop collects a line of the opponent's discs, pushed when the walk ends
\* inside the board on a disc of the player.
RECURSIVE flowTilesToFlip(_, _, _, _, _, _)
flowTilesToFlip(newBoard, player, row, col, d, tilesToFlip) ==
  IF d > Len(directions) THEN tilesToFlip
  ELSE flowTilesToFlip(newBoard, player, row, col, d + 1,
         tilesToFlip \o
         CloseRun(newBoard, player,
                  ScanRun(newBoard, getOpponent(player),
                          row + directions[d][1], col + directions[d][2],
                          directions[d][1], directions[d][2], <<>>)))

\* The disc set down by the flow's applyMove.
flowPlaced(board, player, row, col) == WriteCell(board, row, col, player)

\* The applyMove private to the flow: the board itself when the cell is off
\* the board or taken, else a copy with the disc set down and the closed
\* lines turned, whether or not there are any.
flowApplyMove(board, player, row, col) ==
  IF row < 0 \/ row >= 8 \/ col < 0 \/ col >= 8 THEN board
  ELSE IF board[row][col] # "empty" THEN board
  ELSE FlipTiles(flowPlaced(board, player, row, col), player,
                 flowTilesToFlip(flowPlaced(board, player, row, col), player, row, col,
                                 1, <<>>),
                 1)

\* difficulty > 1 ? difficulty - 1 : 1
ReplyDepth(difficulty) == IF difficulty > 1 THEN difficulty - 1 ELSE 1

\* minimax(tempBoard, difficulty > 1 ? difficulty - 1 : 1, false,
\* getOpponent(currentPlayer)).score, tempBoard the board after the move
moveScore(board, currentPlayer, difficulty, row, col) ==
  minimax(flowApplyMove(board, currentPlayer, row, col), ReplyDepth(difficulty),
          FALSE, getOpponent(currentPlayer), -Infinity, Infinity).score

\* validMoves.map(move => ...)
moveScores(board, currentPlayer, difficulty, validMoves) ==
  [i \in 1 .. Len(validMoves) |->
     moveScore(board, currentPlayer, difficulty, validMoves[i].row, validMoves[i].col)]

\* Math.min(...s) from s[i] on.
RECURSIVE MathMinOf(_, _)
MathMinOf(s, i) ==
  IF i > Len(s) THEN Infinity ELSE MathMin(s[i], MathMinOf(s, i + 1))

\* Math.round(n / d) for d > 0: the nearest integer, a half rounded up.
MathRound(n, d) == ((2 * n) + d) \div (2 * d)

\* Math.round(normalizedScore * 4) + 1 without the branch for equal scores.
starsWithoutEqualBranch(bestScore, worstScore, evaluationOfPlayerMove) ==
  IF bestScore > worstScore
  THEN MathRound(4 * (evaluationOfPlayerMove - worstScore), bestScore - worstScore) + 1
  ELSE 1

\* Math.round(normalizedScore * 4) + 1, normalizedScore being
\* (evaluationOfPlayerMove - worstScore) / (bestScore - worstScore) when
\* bestScore > worstScore, 1 when they are equal and 0 otherwise.
stars(bestScore, worstScore, evaluationOfPlayerMove) ==
  IF bestScore > worstScore
  THEN MathRound(4 * (evaluationOfPlayerMove - worstScore), bestScore - worstScore) + 1
  ELSE IF bestScore = worstScore THEN 5
  ELSE 1

\* The rating handed back without the upper limit.
clampBelow(rating) == MathMax(1, rating)

\* Math.max(1, Math.min(5, rating))
clamp(rating) == MathMax(1, MathMin(5, rating))

\* The flow's result once the three scores are known.
Rated(validMoves, bestScore, scores, evaluationOfPlayerMove) ==
  [rating |-> clamp(stars(bestScore, MathMinOf(scores, 1), evaluationOfPlayerMove)),
   validMoves |-> validMoves,
   bestScore |-> bestScore,
   moveScores |-> scores,
   worstScore |-> MathMinOf(scores, 1),
   evaluationOfPlayerMove |-> evaluationOfPlayerMove]

\* rateMoveFlow once validMoves is known; move is (input as any).move.
RateFrom(board, currentPlayer, difficulty, move, validMoves) ==
  IF Len(validMoves) = 0
  THEN [rating |-> 0, validMoves |-> validMoves]
  ELSE Rated(validMoves,
             minimax(board, difficulty, TRUE, currentPlayer, -Infinity, Infinity).score,
             moveScores(board, currentPlayer, difficulty, validMoves),
             moveScore(board, currentPlayer, difficulty, move.row, move.col))

rateMoveFlow(boardBefore, player, difficulty, move) ==
  RateFrom(boardBefore, player, difficulty, move, getValidMoves(boardBefore, player))

\* ------------------------------------------------------------------- state
VARIABLES
  board,   \* the caller's board object; on the game page, the board state
  nMoves,  \* applyMove results adopted so far; on the game page, the moves
           \* made and the undos
  call,    \* the library call in progress, with its outcome
  game     \* the rest of the game page's state

vars == <<board, nMoves, call, game>>

NoCall == [fn |-> "none"]

\* The game page is not part of a run of the library alone.
NoGame == [gameState |-> "none"]

\* Boards the repository's tests build by hand (othello.test.ts).
EdgeBoard == [EmptyBoard EXCEPT ![0][1] = "white", ![0][2] = "black"]

SurroundedBoard ==
  [EmptyBoard EXCEPT ![3][3] = "black", ![3][2] = "white", ![3][4] = "white",
                     ![2][3] = "white", ![4][3] = "white"]

DiagonalBoard ==
  [EmptyBoard EXCEPT ![3][3] = "black", ![4][4] = "black", ![5][5] = "white"]

SeedBoards == {createInitialBoard, EdgeBoard, SurroundedBoard, DiagonalBoard}

\* All White but (0,0) empty and (7,7) Black (othello.test.ts).
BlockedBoard ==
  [r \in Rows |-> [c \in Rows |->
     IF r = 0 /\ c = 0 THEN "empty" ELSE IF r = 7 /\ c = 7 THEN "black" ELSE "white"]]

\* A single Black disc in the corner (0,0) (minimax.test.ts).
CornerBoard == [EmptyBoard EXCEPT ![0][0] = "black"]

\* The boards the searches start from.
SearchSeedBoards == SeedBoards \cup {BlockedBoard, CornerBoard}

Init ==
  /\ board \in SeedBoards
  /\ nMoves = 0
  /\ call = NoCall
  /\ game = NoGame

SearchInit ==
  /\ board \in SearchSeedBoards
  /\ nMoves = 0
  /\ call = NoCall
  /\ game = NoGame

\* The position after Black's (2,3) from the initial board.
FirstMoveBoard == applyMove(createInitialBoard, "black", 2, 3).value

\* The position after White's reply (4,2) to it.
SecondMoveBoard == applyMove(FirstMoveBoard, "white", 4, 2).value

\* The boards handed to the move-rating flow as boardBefore.
RateSeedBoards == SearchSeedBoards \cup {FirstMoveBoard, SecondMoveBoard}

RateInit ==
  /\ board \in RateSeedBoards
  /\ nMoves = 0
  /\ call = NoCall
  /\ game = NoGame

\* board = applyMove(board, player, row, col) with a Move of the 8x8 grid
Play(player, row, col) ==
  /\ call.fn = "none"
  /\ nMoves < MaxMoves
  /\ board' = applyMove(board, player, row, col).value
  /\ nMoves' = nMoves + 1
  /\ UNCHANGED <<call, game>>

\* The game loop's move (page.tsx): applyMove with a move getValidMoves offers.
PlayLegal(player, row, col) ==
  /\ call.fn = "none"
  /\ nMoves < MaxSearchMoves
  /\ isValidMove(board, player, row, col).value
  /\ board' = applyMove(board, player, row, col).value
  /\ nMoves' = nMoves + 1
  /\ UNCHANGED <<call, game>>

\* The record of a call of fn on the board `before` with outcome res; pruned
\* counts the moves a search skipped by its break.
CallRecord(fn, args, before, res) ==
  [fn |-> fn, args |-> args, before |-> before, threw |-> res.threw,
   value |-> res.value, same |-> res.same, arg |-> res.arg, pruned |-> res.pruned,
   nesting |-> res.nesting]

\* The outcome of applyMove.
Applied(res) ==
  [threw |-> res.threw, value |-> res.value, same |-> res.same, arg |-> res.arg,
   pruned |-> 0, nesting |-> 0]

\* The outcome of a function of othello.ts that only reads its board.
ReadOnly(before, res) ==
  [threw |-> res.threw, value |-> res.value, same |-> FALSE, arg |-> before,
   pruned |-> 0, nesting |-> 0]

\* The outcome of a minimax call.
Searched(res) ==
  [threw |-> res.trace.threw, value |-> [score |-> res.score, move |-> res.move],
   same |-> FALSE, arg |-> res.arg, pruned |-> res.pruned,
   nesting |-> res.trace.nesting]

CallApplyMove(player, row, col) ==
  /\ call.fn = "none"
  /\ call' = CallRecord("applyMove", [player |-> player, row |-> row, col |-> col],
                        board, Applied(applyMove(board, player, row, col)))
  /\ board' = call'.arg
  /\ UNCHANGED <<nMoves, game>>

CallIsValidMove(player, row, col) ==
  /\ call.fn = "none"
  /\ call' = CallRecord("isValidMove", [player |-> player, row |-> row, col |-> col],
                        board, ReadOnly(board, isValidMove(board, player, row, col)))
  /\ board' = call'.arg
  /\ UNCHANGED <<nMoves, game>>

CallGetValidMoves(player) ==
  /\ call.fn = "none"
  /\ call' = CallRecord("getValidMoves", [player |-> player], board,
                        ReadOnly(board, Returned(getValidMoves(board, player))))
  /\ board' = call'.arg
  /\ UNCHANGED <<nMoves, game>>

CallGetScore ==
  /\ call.fn = "none"
  /\ call' = CallRecord("getScore", <<>>, board,
                        ReadOnly(board, Returned(getScore(board))))
  /\ board' = call'.arg
  /\ UNCHANGED <<nMoves, game>>

CallBoardToString ==
  /\ call.fn = "none"
  /\ call' = CallRecord("boardToString", <<>>, board,
                        ReadOnly(board, Returned(boardToString(board))))
  /\ board' = call'.arg
  /\ UNCHANGED <<nMoves, game>>

\* minimax(board, depth, isMaximizingPlayer, player) with the default bounds,
\* on a position nMoves plies from its seed board and to a horizon of at most
\* MaxDepth plies from that seed.
CallMinimax(depth, isMaximizingPlayer, player) ==
  /\ call.fn = "none"
  /\ depth + nMoves <= MaxDepth
  /\ depth < 0 => CountCells(board, "empty") <= MaxEndgameEmpty
  /\ call' = CallRecord("minimax",
                        [depth |-> depth, maximizing |-> isMaximizingPlayer,
                         player |-> player, alpha |-> -Infinity, beta |-> Infinity],
                        board,
                        Searched(minimax(board, depth, isMaximizingPlayer, player,
                                         -Infinity, Infinity)))
  /\ board' = call'.arg
  /\ UNCHANGED <<nMoves, game>>

\* Values handed to minimax as alpha and beta.
WindowBounds == {-Infinity, 0, Infinity}

\* minimax(board, depth, isMaximizingPlayer, player, alpha, beta) on a seed
\* board, with a window other than the default one.
CallMinimaxWindow(depth, isMaximizingPlayer, player, alpha, beta) ==
  /\ call.fn = "none"
  /\ nMoves = 0
  /\ <<alpha, beta>> # <<-Infinity, Infinity>>
  /\ call' = CallRecord("minimax",
                        [depth |-> depth, maximizing |-> isMaximizingPlayer,
                         player |-> player, alpha |-> alpha, beta |-> beta],
                        board,
                        Searched(minimax(board, depth, isMaximizingPlayer, player,
                                         alpha, beta)))
  /\ board' = call'.arg
  /\ UNCHANGED <<nMoves, game>>

\* The call returns to its caller.
Return ==
  /\ call.fn # "none"
  /\ call' = NoCall
  /\ UNCHANGED <<board, nMoves, game>>

\* The calls into othello.ts.
EngineCall ==
  \/ \E player \in Players, row \in Coords, col \in Coords : CallApplyMove(player, row, col)
  \/ \E player \in Players, row \in Coords, col \in Coords : CallIsValidMove(player, row, col)
  \/ \E player \in Players : CallGetValidMoves(player)
  \/ CallGetScore
  \/ CallBoardToString

Next ==
  \/ \E player \in Players, row \in Rows, col \in Rows : Play(player, row, col)
  \/ EngineCall
  \/ Return

SearchNext ==
  \/ \E player \in Players, row \in Rows, col \in Rows : PlayLegal(player, row, col)
  \/ EngineCall
  \/ \E depth \in -1 .. MaxDepth, isMaximizingPlayer \in BOOLEAN, player \in Players :
       CallMinimax(depth, isMaximizingPlayer, player)
  \/ \E depth \in 0 .. MaxDepth, isMaximizingPlayer \in BOOLEAN, player \in Players,
        alpha \in WindowBounds, beta \in WindowBounds :
       CallMinimaxWindow(depth, isMaximizingPlayer, player, alpha, beta)
  \/ Return

\* The moves handed to the flow as the move played: the legal ones, a taken
\* cell, an empty cell that captures nothing where there is one, and a cell
\* off the board.
PlayedMoves(player) ==
  {getValidMoves(board, player)[i] : i \in 1 .. Len(getValidMoves(board, player))}
    \cup {Pos(3, 3), Pos(7, 0), Pos(-1, 0)}

\* rateMove({boardBefore: board, player, difficulty, move})
CallRateMove(player, difficulty, move) ==
  /\ call.fn = "none"
  /\ call' = [fn |-> "rateMove",
              args |-> [player |-> player, difficulty |-> difficulty, move |-> move],
              before |-> board,
              threw |-> FALSE,
              value |-> rateMoveFlow(board, player, difficulty, move),
              same |-> FALSE, arg |-> board, pruned |-> 0, nesting |-> 0]
  /\ UNCHANGED <<board, nMoves, game>>

RateNext ==
  \/ \E player \in Players, difficulty \in 1 .. MaxDifficulty :
       \E move \in PlayedMoves(player) : CallRateMove(player, difficulty, move)
  \/ Return

\* The board engine under arbitrary applyMove sequences.
Spec == Init /\ [][Next]_vars

\* The search, and the engine, on positions of legal play.
SearchSpec == SearchInit /\ [][SearchNext]_vars

\* The move-rating flow on positions of legal play.
RateSpec == RateInit /\ [][RateNext]_vars

\* ------------------------------------------------------- the game page
\* useState('othello-difficulty', 1), and the same for the two AI players.
difficultyLevel == 1
ai1Difficulty == 1
ai2Difficulty == 1

\* userPlayer of a game without a human player.
noPlayer == "null"

\* { board: initialBoard, player: 'black', move: null }
InitialEntry == [board |-> createInitialBoard, player |-> "black", move |-> null]

\* The page's state on its first load: the default values of its state
\* hooks; dirty tells that a render's effects are still to run, timer is the
\* pending setTimeout of the AI effect with the values its closure holds.
FreshGame ==
  [gameState |-> "menu", currentPlayer |-> "black", userPlayer |-> "black",
   gameMode |-> "playerVsAi", history |-> <<>>, validMoves |-> <<>>,
   aiIsThinking |-> FALSE, timer |-> null, dirty |-> TRUE]

\* The first 57 moves of the game the two AI players play at the default
\* difficulty (a human playing either colour can play the same moves).
SavedMoves ==
  <<<<"black", 2, 3>>, <<"white", 2, 2>>, <<"black", 3, 2>>, <<"white", 2, 4>>,
    <<"black", 1, 4>>, <<"white", 3, 1>>, <<"black", 2, 1>>, <<"white", 1, 3>>,
    <<"black", 2, 5>>, <<"white", 0, 4>>, <<"black", 3, 5>>, <<"white", 3, 6>>,
    <<"black", 4, 2>>, <<"white", 4, 1>>, <<"black", 2, 6>>, <<"white", 1, 2>>,
    <<"black", 5, 4>>, <<"white", 1, 5>>, <<"black", 1, 6>>, <<"white", 2, 7>>,
    <<"black", 0, 5>>, <<"white", 0, 7>>, <<"black", 0, 3>>, <<"white", 0, 2>>,
    <<"black", 0, 1>>, <<"white", 2, 0>>, <<"black", 1, 1>>, <<"white", 1, 0>>,
    <<"black", 0, 0>>, <<"white", 5, 3>>, <<"black", 3, 0>>, <<"white", 4, 0>>,
    <<"black", 5, 5>>, <<"white", 4, 5>>, <<"black", 5, 0>>, <<"white", 5, 1>>,
    <<"black", 4, 6>>, <<"white", 5, 2>>, <<"black", 4, 7>>, <<"white", 3, 7>>,
    <<"black", 1, 7>>, <<"white", 5, 7>>, <<"black", 6, 0>>, <<"white", 0, 6>>,
    <<"black", 6, 1>>, <<"white", 7, 0>>, <<"black", 7, 1>>, <<"white", 7, 2>>,
    <<"black", 6, 2>>, <<"white", 5, 6>>, <<"black", 6, 7>>, <<"white", 7, 7>>,
    <<"white", 6, 6>>, <<"white", 6, 5>>, <<"black", 7, 5>>, <<"white", 7, 6>>,
    <<"black", 6, 3>>>>

RECURSIVE PlayedOut(_, _, _, _)

\* The next move is played once the board and the history so far are known.
PlayedOn(moves, i, b, history) ==
  IF b \in {b} /\ history \in {history} THEN PlayedOut(moves, i, b, history)
  ELSE [board |-> b, history |-> history]

\* The board and the history after moves[i ..] played on board b.
PlayedOut(moves, i, b, history) ==
  IF i > Len(moves) THEN [board |-> b, history |-> history]
  ELSE PlayedOn(moves, i + 1,
                applyMove(b, moves[i][1], moves[i][2], moves[i][3]).value,
                Append(history, [board |-> b, player |-> moves[i][1],
                                 move |-> Pos(moves[i][2], moves[i][3])]))

\* The game kept in localStorage after SavedMoves: White is to move.
SavedGame == PlayedOut(SavedMoves, 1, createInitialBoard, <<InitialEntry>>)

\* The page loads with nothing stored, or with the saved game in progress.
GameInit ==
  /\ nMoves = 0
  /\ call = NoCall
  /\ \/ /\ board = createInitialBoard
        /\ game = FreshGame
     \/ /\ board = SavedGame.board
        /\ \E mode \in {"playerVsAi", "aiVsAi"}, player \in Players \cup {noPlayer} :
             /\ (mode = "aiVsAi") <=> (player = noPlayer)
             /\ game = [FreshGame EXCEPT !.gameState = "playing",
                                         !.currentPlayer = "white",
                                         !.userPlayer = player,
                                         !.gameMode = mode,
                                         !.history = SavedGame.history]

\* updateGameData declaring the game over as soon as the player has no move.
updateGameDataOverWithoutOpponent(g, currentBoard, player) ==
  IF Len(getValidMoves(currentBoard, player)) = 0
  THEN [g EXCEPT !.validMoves = <<>>, !.gameState = "gameOver"]
  ELSE [g EXCEPT !.validMoves = getValidMoves(currentBoard, player)]

\* updateGameData leaving the turn with the player who has no move.
updateGameDataWithoutSkip(g, currentBoard, player) ==
  IF Len(getValidMoves(currentBoard, player)) = 0
     /\ Len(getValidMoves(currentBoard, getOpponent(player))) = 0
  THEN [g EXCEPT !.validMoves = <<>>, !.gameState = "gameOver"]
  ELSE [g EXCEPT !.validMoves = getValidMoves(currentBoard, player)]

\* updateGameData(currentBoard, player): the valid moves are recomputed; a
\* player without a move ends the game when the opponent has none either,
\* and has the turn skipped otherwise.
updateGameData(g, currentBoard, player) ==
  IF Len(getValidMoves(currentBoard, player)) = 0
  THEN IF Len(getValidMoves(currentBoard, getOpponent(player))) = 0
       THEN [g EXCEPT !.validMoves = <<>>, !.gameState = "gameOver"]
       ELSE [g EXCEPT !.validMoves = <<>>, !.currentPlayer = getOpponent(player)]
  ELSE [g EXCEPT !.validMoves = getValidMoves(currentBoard, player)]

\* The effect on [board, currentPlayer, gameState].
gameDataEffect(g, b) ==
  IF g.gameState = "playing" THEN updateGameData(g, b, g.currentPlayer) ELSE g

\* useMemo: the AI's colour in a game against the user.
aiPlayer(g) ==
  IF g.gameMode = "playerVsAi" /\ g.userPlayer # noPlayer
  THEN getOpponent(g.userPlayer)
  ELSE noPlayer

\* handleAiMove: setAiIsThinking(true) and a timer whose callback holds the
\* effect's board and currentPlayer.
handleAiMove(g, b, aiDifficulty, aiColor) ==
  [g EXCEPT !.aiIsThinking = TRUE,
            !.timer = [board |-> b, currentPlayer |-> g.currentPlayer,
                       aiColor |-> aiColor, aiDifficulty |-> aiDifficulty]]

\* The AI effect, run on the values of the render g, b.
aiEffect(g, b) ==
  IF g.gameState # "playing" \/ g.aiIsThinking THEN g
  ELSE IF g.gameMode = "playerVsAi" /\ g.currentPlayer = aiPlayer(g)
  THEN handleAiMove(g, b, difficultyLevel, aiPlayer(g))
  ELSE IF g.gameMode = "aiVsAi"
  THEN handleAiMove(g, b,
                    IF g.currentPlayer = "black" THEN ai1Difficulty ELSE ai2Difficulty,
                    g.currentPlayer)
  ELSE g

\* The state after both effects of a render have run on its values: the
\* updates of the first with those of the second.
Rendered(g, afterGameData, afterAi) ==
  [afterGameData EXCEPT !.aiIsThinking = afterAi.aiIsThinking,
                        !.timer = afterAi.timer]

\* The effects of the last render run, before the page handles anything
\* else; what they set makes for another render.
RunEffects ==
  /\ game.dirty
  /\ game' = [Rendered(game, gameDataEffect(game, board), aiEffect(game, board))
                EXCEPT !.dirty =
                  (Rendered(game, gameDataEffect(game, board), aiEffect(game, board))
                   # game)]
  /\ UNCHANGED <<board, nMoves, call>>

\* startGame(mode, player)
startGame(g, mode, player) ==
  [g EXCEPT !.currentPlayer = "black", !.gameState = "playing",
            !.history = <<InitialEntry>>, !.userPlayer = player,
            !.gameMode = mode, !.dirty = TRUE]

\* The buttons of the menu, shown before and after a game, and the button
\* 'Start New Game' of a game in progress, which keeps mode and colour.
StartGame(mode, player) ==
  /\ call.fn = "none"
  /\ ~game.dirty
  /\ (mode = "aiVsAi") <=> (player = noPlayer)
  /\ game.gameState = "playing" =>
       /\ mode = (IF game.gameMode = "playerVsAi" /\ game.userPlayer # noPlayer
                  THEN "playerVsAi" ELSE "aiVsAi")
       /\ mode = "playerVsAi" => player = game.userPlayer
  /\ board' = createInitialBoard
  /\ game' = startGame(game, mode, player)
  /\ UNCHANGED <<nMoves, call>>

\* handlePlayerMove(move): the state but the board.
handlePlayerMove(g, b, move) ==
  [g EXCEPT !.history = Append(@, [board |-> b, player |-> g.currentPlayer,
                                   move |-> move]),
            !.currentPlayer = getOpponent(g.currentPlayer),
            !.dirty = TRUE]

\* handleCellClick(move) on a cell it accepts.
CellClick(move) ==
  /\ call.fn = "none"
  /\ ~game.dirty
  /\ nMoves < MaxGameMoves
  /\ game.gameState = "playing"
  /\ game.currentPlayer = game.userPlayer
  /\ ~game.aiIsThinking
  /\ game.gameMode # "aiVsAi"
  /\ \E i \in 1 .. Len(game.validMoves) : game.validMoves[i] = move
  /\ board' = applyMove(board, game.currentPlayer, move.row, move.col).value
  /\ game' = handlePlayerMove(game, board, move)
  /\ nMoves' = nMoves + 1
  /\ UNCHANGED call

\* The callback of the AI effect's timer: it works on the board and the
\* currentPlayer of the render that set the timer.
AiTimer ==
  /\ call.fn = "none"
  /\ ~game.dirty
  /\ game.timer # null
  /\ IF Len(getValidMoves(game.timer.board, game.timer.aiColor)) > 0
     THEN /\ nMoves < MaxGameMoves
          /\ LET bestMove == minimax(game.timer.board, game.timer.aiDifficulty, TRUE,
                                     game.timer.aiColor, -Infinity, Infinity).move
             IN /\ board' = applyMove(game.timer.board, game.timer.aiColor,
                                      bestMove.row, bestMove.col).value
                /\ game' = [game EXCEPT
                              !.history = Append(@, [board |-> game.timer.board,
                                                     player |-> game.timer.currentPlayer,
                                                     move |-> bestMove]),
                              !.currentPlayer = getOpponent(game.timer.aiColor),
                              !.aiIsThinking = FALSE,
                              !.timer = null,
                              !.dirty = TRUE]
          /\ nMoves' = nMoves + 1
     ELSE /\ game' = [game EXCEPT !.aiIsThinking = FALSE, !.timer = null,
                                  !.dirty = TRUE]
          /\ UNCHANGED <<board, nMoves>>
  /\ UNCHANGED call

\* handleUndo once calculatedMovesToUndo is known: board and state after it.
handleUndo(g, b, calculatedMovesToUndo, forceUndo) ==
  IF ~forceUndo /\ (Len(g.history) < 2 \/ g.gameMode = "aiVsAi")
  THEN [board |-> b, game |-> g]
  ELSE IF calculatedMovesToUndo <= 0
  THEN [board |-> b, game |-> g]
  ELSE IF Len(g.history) <= calculatedMovesToUndo
  THEN [board |-> createInitialBoard,
        game |-> [g EXCEPT !.currentPlayer = "black", !.gameState = "playing",
                           !.history = <<InitialEntry>>, !.dirty = TRUE]]
  ELSE [board |-> g.history[Len(g.history) - calculatedMovesToUndo].board,
        game |-> [g EXCEPT
                    !.currentPlayer =
                      g.history[Len(g.history) - calculatedMovesToUndo].player,
                    !.history = SubSeq(g.history, 1,
                                       Len(g.history) - calculatedMovesToUndo),
                    !.dirty = TRUE]]

\* handleAdvancedUndo(moveCount)
handleAdvancedUndo(g, b, moveCount) ==
  IF moveCount <= 0 \/ moveCount >= Len(g.history)
  THEN [board |-> b, game |-> g]
  ELSE handleUndo(g, b, moveCount, TRUE)

\* handleUndoAll()
handleUndoAll(g, b) ==
  IF Len(g.history) <= 1
  THEN [board |-> b, game |-> g]
  ELSE handleUndo(g, b, Len(g.history) - 1, TRUE)

canUndo ==
  /\ game.gameState = "playing"
  /\ Len(game.history) > 1
  /\ ~game.aiIsThinking
  /\ game.gameMode = "playerVsAi"
  /\ game.currentPlayer = game.userPlayer

canAdvancedUndo ==
  /\ game.gameState = "playing"
  /\ Len(game.history) > 1
  /\ ~game.aiIsThinking

\* The button Undo: handleUndo() with its default number of moves.
Undo ==
  /\ call.fn = "none"
  /\ ~game.dirty
  /\ canUndo
  /\ nMoves < MaxGameMoves
  /\ board' = handleUndo(game, board,
                         IF game.userPlayer = game.currentPlayer THEN 1 ELSE 2,
                         FALSE).board
  /\ game' = handleUndo(game, board,
                        IF game.userPlayer = game.currentPlayer THEN 1 ELSE 2,
                        FALSE).game
  /\ nMoves' = nMoves + 1
  /\ UNCHANGED call

\* The button 'Undo n Moves' of the advanced popover, n as its input allows.
AdvancedUndo(moveCount) ==
  /\ call.fn = "none"
  /\ ~game.dirty
  /\ canAdvancedUndo
  /\ nMoves < MaxGameMoves
  /\ moveCount <= Len(game.history) - 1
  /\ board' = handleAdvancedUndo(game, board, moveCount).board
  /\ game' = handleAdvancedUndo(game, board, moveCount).game
  /\ nMoves' = nMoves + 1
  /\ UNCHANGED call

\* The button 'Undo All' of the advanced popover.
UndoAll ==
  /\ call.fn = "none"
  /\ ~game.dirty
  /\ canAdvancedUndo
  /\ nMoves < MaxGameMoves
  /\ board' = handleUndoAll(game, board).board
  /\ game' = handleUndoAll(game, board).game
  /\ nMoves' = nMoves + 1
  /\ UNCHANGED call

GameNext ==
  \/ \E mode \in {"playerVsAi", "aiVsAi"}, player \in Players \cup {noPlayer} :
       StartGame(mode, player)
  \/ \E row \in Rows, col \in Rows : CellClick(Pos(row, col))
  \/ Undo
  \/ \E moveCount \in 1 .. MaxUndo : AdvancedUndo(moveCount)
  \/ UndoAll
  \/ RunEffects
  \/ AiTimer

\* The game page from its load on.
GameSpec == GameInit /\ [][GameNext]_vars

\* The same, with the effects of a render run in the end, as React sees to.
FairGameSpec == GameSpec /\ WF_vars(RunEffects)

\* ------------------------------------------------------------------ claims
InRange(row, col) == row \in Rows /\ col \in Rows

\* The elements of a sequence.
Range(seq) == {seq[i] : i \in 1 .. Len(seq)}

\* A board is an 8x8 grid whose cells hold one of the three cell states.
IsGrid(b) ==
  /\ DOMAIN b = Rows
  /\ \A r \in Rows : DOMAIN b[r] = Rows /\ \A c \in Rows : b[r][c] \in CellStates

\* The k cells after (row, col) in direction dir.
Ray(row, col, dir, k) == {Pos(row + (j * dir[1]), col + (j * dir[2])) : j \in 1 .. k}

\* Othello's capture rule, stated on its own: the discs of the opponent that
\* lie in an unbroken line between (row, col) and a disc of the player.
Captured(b, player, row, col) ==
  UNION {Ray(row, col, DIRECTIONS[d], k) : <<d, k>> \in
           {dk \in (1 .. 8) \X (1 .. (BOARD_SIZE - 1)) :
              LET dir == DIRECTIONS[dk[1]]
                  er == row + ((dk[2] + 1) * dir[1])
                  ec == col + ((dk[2] + 1) * dir[2])
              IN /\ InRange(er, ec)
                 /\ b[er][ec] = player
                 /\ \A q \in Ray(row, col, dir, dk[2]) :
                      b[q.row][q.col] = getOpponent(player)}}

\* C1: every board reached from a seed board by applyMove with moves of either
\* player is an 8x8 grid of empty/black/white cells, its three counts add up
\* to 64 and getScore's black and white add up to at most 64.
C1_BoardKeeps64Cells ==
  /\ IsGrid(board)
  /\ CountCells(board, "black") + CountCells(board, "white")
       + CountCells(board, "empty") = 64
  /\ getScore(board).black + getScore(board).white <= 64

\* C1 witness: the initial board after Black at (2,3) and White at (2,2).
C1_Witness ==
  /\ nMoves = 2
  /\ board = [createInitialBoard EXCEPT ![2][3] = "black", ![3][3] = "white",
                                        ![2][2] = "white"]
  /\ getScore(board) = [black |-> 3, white |-> 3]

C4_LegalMovePlacesAndFlips ==
  (call.fn = "applyMove" /\ InRange(call.args.row, call.args.col)
     /\ isValidMove(call.before, call.args.player, call.args.row, call.args.col).value)
    => LET player == call.args.player
           opponent == getOpponent(call.args.player)
           flips == getFlipsForMove(call.before, call.args.player,
                                    call.args.row, call.args.col).value
           k == Len(flips)
           old == getScore(call.before)
           new == getScore(call.value)
       IN /\ ~call.threw
          /\ IsGrid(call.value)
          /\ \A r \in Rows, c \in Rows :
               call.value[r][c] =
                 IF (r = call.args.row /\ c = call.args.col) \/ Pos(r, c) \in Range(flips)
                 THEN player
                 ELSE call.before[r][c]
          /\ k >= 1
          /\ new[player] = old[player] + 1 + k
          /\ new[opponent] = old[opponent] - k
          /\ new.black + new.white = old.black + old.white + 1

\* C4 witness: Black at (2,3) on the initial board gives 4 : 1 with (3,3) Black.
C4_Witness ==
  /\ call.fn = "applyMove"
  /\ call.before = createInitialBoard
  /\ call.args = [player |-> "black", row |-> 2, col |-> 3]
  /\ getScore(call.value) = [black |-> 4, white |-> 1]
  /\ call.value[3][3] = "black"

\* C5: applyMove, isValidMove, getValidMoves, getScore, boardToString and
\* minimax leave the board they are given as it was, whatever the coordinates
\* and whether they return or throw.
C5_ArgumentBoardUnchanged ==
  call.fn # "none" => call.arg = call.before /\ board = call.before

\* C5 witness: an applyMove that placed a disc and returned another board.
C5_Witness ==
  /\ call.fn = "applyMove"
  /\ ~call.threw
  /\ call.value # call.before
  /\ call.arg = call.before

SetMax(S) == CHOOSE x \in S : \A y \in S : x >= y
SetMin(S) == CHOOSE x \in S : \A y \in S : x <= y

\* Depth-limited minimax with a fixed perspective and no bounds: the mover is
\* the player when maximizing and the opponent otherwise, a node at depth 0 or
\* without a move for the mover is worth evaluateBoard(board, player), any
\* other node the largest (maximizing) or smallest value of all its children.
RECURSIVE FullWidth(_, _, _, _)
FullWidthOver(b, depth, maximizing, player, mover, moves) ==
  IF depth = 0 \/ moves = <<>> THEN evaluateBoard(b, player)
  ELSE IF maximizing
  THEN SetMax({FullWidth(applyMove(b, mover, m.row, m.col).value, depth - 1,
                         ~maximizing, player) : m \in Range(moves)})
  ELSE SetMin({FullWidth(applyMove(b, mover, m.row, m.col).value, depth - 1,
                         ~maximizing, player) : m \in Range(moves)})

FullWidth(b, depth, maximizing, player) ==
  FullWidthOver(b, depth, maximizing, player,
                IF maximizing THEN player ELSE getOpponent(player),
                getValidMoves(b, IF maximizing THEN player ELSE getOpponent(player)))

\* C6: the score minimax returns with the default bounds is the score of the
\* same depth-limited fixed-perspective minimax searched full-width.
C6_PruningKeepsTheScore ==
  (call.fn = "minimax" /\ call.args.alpha = -Infinity /\ call.args.beta = Infinity) =>
    call.value.score = FullWidth(call.before, call.args.depth, call.args.maximizing,
                                 call.args.player)

\* C6 witness: a search at depth 2 that skipped moves by its break.
C6_Witness ==
  /\ call.fn = "minimax"
  /\ call.args.alpha = -Infinity /\ call.args.beta = Infinity
  /\ call.args.depth = 2
  /\ call.pruned > 0
  /\ call.value.move # null

\* C7: isValidMove returns false, and does not throw, for every row or column
\* outside 0..7.
C7_TotalOutsideTheBoard ==
  (call.fn = "isValidMove" /\ ~InRange(call.args.row, call.args.col))
    => ~call.threw /\ call.value = FALSE

\* C8: applyMove on an occupied cell returns a board equal to the input board.
C8_OccupiedCellLeavesBoard ==
  (call.fn = "applyMove" /\ InRange(call.args.row, call.args.col)
     /\ call.before[call.args.row][call.args.col] # "empty")
    => ~call.threw /\ call.value = call.before

\* C9: applyMove on an empty in-range cell whose move captures nothing returns
\* the input board itself, unchanged.
C9_EmptyCellWithoutCaptureReturnsInput ==
  (call.fn = "applyMove" /\ InRange(call.args.row, call.args.col)
     /\ call.before[call.args.row][call.args.col] = "empty"
     /\ Captured(call.before, call.args.player, call.args.row, call.args.col) = {})
    => ~call.threw /\ call.same /\ call.value = call.before

\* C9 witness: applyMove for Black at the corner (0,0) of the initial board.
C9_Witness ==
  /\ call.fn = "applyMove"
  /\ call.before = createInitialBoard
  /\ call.args = [player |-> "black", row |-> 0, col |-> 0]
  /\ call.same

\* C10: minimax(board, 0, true, P) returns move null and the score
\* evaluateBoard(board, P), whether or not P has a legal move.
C10_DepthZeroEvaluates ==
  (call.fn = "minimax" /\ call.args.depth = 0 /\ call.args.maximizing)
    => /\ call.value.move = null
       /\ call.value.score = evaluateBoard(call.before, call.args.player)

\* C10 witness: a depth-0 search for a player who has legal moves.
C10_Witness ==
  /\ call.fn = "minimax"
  /\ call.args.depth = 0
  /\ call.args.maximizing
  /\ getValidMoves(call.before, call.args.player) # <<>>
  /\ call.value.move = null

\* The player whose moves a minimax call enumerates.
Mover(args) == IF args.maximizing THEN args.player ELSE getOpponent(args.player)

\* C11: a negative depth is treated as depth 0: where the mover has a legal
\* move, minimax returns move null and the score evaluateBoard(board, player).
C11_NegativeDepthEvaluates ==
  (call.fn = "minimax" /\ call.args.depth < 0
     /\ getValidMoves(call.before, Mover(call.args)) # <<>>)
    => /\ call.value.move = null
       /\ call.value.score = evaluateBoard(call.before, call.args.player)

\* C12: with depth > 0 and no legal move for the mover, minimax returns the
\* score evaluateBoard(board, player) and move null, whether or not the other
\* player has a move.
C12_NoMoveForTheMoverEvaluates ==
  (call.fn = "minimax" /\ call.args.depth > 0
     /\ getValidMoves(call.before, Mover(call.args)) = <<>>)
    => /\ call.value.move = null
       /\ call.value.score = evaluateBoard(call.before, call.args.player)
       /\ call.pruned = 0

\* C12 witness: a search of depth 2 whose mover has no move while the other
\* player has one.
C12_Witness ==
  /\ call.fn = "minimax"
  /\ call.args.depth = 2
  /\ getValidMoves(call.before, Mover(call.args)) = <<>>
  /\ getValidMoves(call.before, getOpponent(Mover(call.args))) # <<>>
  /\ call.value.move = null

\* C13: with depth > 0 and a legal move for the mover, minimax returns a move
\* that is not null and is one of the mover's legal moves, whatever alpha and
\* beta it is given.
C13_ReturnsALegalMove ==
  (call.fn = "minimax" /\ call.args.depth > 0
     /\ getValidMoves(call.before, Mover(call.args)) # <<>>)
    => /\ call.value.move # null
       /\ call.value.move \in Range(getValidMoves(call.before, Mover(call.args)))

\* C13 witness: a search entered with alpha >= beta that returned a move.
C13_Witness ==
  /\ call.fn = "minimax"
  /\ call.args.depth > 0
  /\ call.args.alpha >= call.args.beta
  /\ call.value.move # null
  /\ call.pruned > 0

\* The full-width value of the position after the mover's i-th legal move.
ChildValue(before, args, moves, i) ==
  FullWidth(applyMove(before, Mover(args), moves[i].row, moves[i].col).value,
            args.depth - 1, ~args.maximizing, args.player)

\* The indices of the moves whose full-width child value is score.
Achieving(before, args, moves, score) ==
  {i \in 1 .. Len(moves) : ChildValue(before, args, moves, i) = score}

\* The move minimax returned is the first of moves, in their order, among those
\* whose child value is the returned score.
FirstAchieving(before, args, moves, value) ==
  \E i \in Achieving(before, args, moves, value.score) :
    /\ value.move = moves[i]
    /\ \A j \in Achieving(before, args, moves, value.score) : i <= j

\* C14: with the default bounds and depth >= 1, the move returned is the
\* earliest legal move, in row-major order, whose full-width child value
\* equals the returned score.
C14_FirstFoundMoveWinsTies ==
  (call.fn = "minimax" /\ call.args.depth >= 1
     /\ call.args.alpha = -Infinity /\ call.args.beta = Infinity
     /\ getValidMoves(call.before, Mover(call.args)) # <<>>)
    => FirstAchieving(call.before, call.args,
                      getValidMoves(call.before, Mover(call.args)), call.value)

\* C14 witness: a search in which two moves achieve the returned score.
C14_Witness ==
  /\ call.fn = "minimax"
  /\ call.args.depth = 2
  /\ call.args.alpha = -Infinity /\ call.args.beta = Infinity
  /\ Cardinality(Achieving(call.before, call.args,
                           getValidMoves(call.before, Mover(call.args)),
                           call.value.score)) >= 2

\* The value of a position one ply deep, spelled out: the mover is the player
\* when maximizing and the opponent otherwise; each leaf is valued for player.
OnePlyValue(b, maximizing, player, mover, moves) ==
  IF moves = <<>> THEN evaluateBoard(b, player)
  ELSE IF maximizing
  THEN SetMax({evaluateBoard(applyMove(b, mover, m.row, m.col).value, player) :
                 m \in Range(moves)})
  ELSE SetMin({evaluateBoard(applyMove(b, mover, m.row, m.col).value, player) :
                 m \in Range(moves)})

\* The value of a position two plies deep: the replies are the other side's.
TwoPlyValue(b, maximizing, player, mover, moves) ==
  IF moves = <<>> THEN evaluateBoard(b, player)
  ELSE IF maximizing
  THEN SetMax({OnePlyValue(applyMove(b, mover, m.row, m.col).value, FALSE, player,
                           getOpponent(player),
                           getValidMoves(applyMove(b, mover, m.row, m.col).value,
                                         getOpponent(player))) : m \in Range(moves)})
  ELSE SetMin({OnePlyValue(applyMove(b, mover, m.row, m.col).value, TRUE, player,
                           player,
                           getValidMoves(applyMove(b, mover, m.row, m.col).value,
                                         player)) : m \in Range(moves)})

\* C15: a search for player enumerates player's moves where maximizing and
\* the opponent's where not, flips the flag at each ply and values every leaf
\* with evaluateBoard(leaf, player), without a change of sign.
C15_FixedPerspective ==
  (call.fn = "minimax" /\ call.args.depth \in {1, 2}
     /\ call.args.alpha = -Infinity /\ call.args.beta = Infinity)
    => /\ call.value.score =
            IF call.args.depth = 1
            THEN OnePlyValue(call.before, call.args.maximizing, call.args.player,
                             Mover(call.args),
                             getValidMoves(call.before, Mover(call.args)))
            ELSE TwoPlyValue(call.before, call.args.maximizing, call.args.player,
                             Mover(call.args),
                             getValidMoves(call.before, Mover(call.args)))
       /\ call.value.move # null =>
            isValidMove(call.before, Mover(call.args), call.value.move.row,
                        call.value.move.col).value

\* C15 witness: a minimizing root of depth 2 for Black that returned a move of
\* White which is not a move of Black.
C15_Witness ==
  /\ call.fn = "minimax"
  /\ call.args.depth = 2
  /\ call.args.alpha = -Infinity /\ call.args.beta = Infinity
  /\ ~call.args.maximizing
  /\ call.args.player = "black"
  /\ call.value.move # null
  /\ isValidMove(call.before, "white", call.value.move.row, call.value.move.col).value
  /\ ~isValidMove(call.before, "black", call.value.move.row, call.value.move.col).value

\* The position of a cell in row-major order.
RowMajorIndex(m) == (m.row * BOARD_SIZE) + m.col

\* C16: getValidMoves returns its moves in row-major order, rows ascending and
\* columns ascending within a row, none twice.
C16_ValidMovesInRowMajorOrder ==
  call.fn = "getValidMoves" =>
    \A i, j \in 1 .. Len(call.value) :
      i < j => RowMajorIndex(call.value[i]) < RowMajorIndex(call.value[j])

\* C16 witness: a list with two moves in one row and moves in other rows.
C16_Witness ==
  /\ call.fn = "getValidMoves"
  /\ \E i, j, k \in 1 .. Len(call.value) :
       /\ i < j /\ j < k
       /\ call.value[i].row < call.value[j].row
       /\ call.value[j].row = call.value[k].row
       /\ call.value[j].col < call.value[k].col

\* C17: the initial board has White on (3,3) and (4,4), Black on (3,4) and
\* (4,3), 60 empty cells and the score 2 : 2; Black's legal moves on it are
\* (2,3), (3,2), (4,5), (5,4) and White's (2,4), (3,5), (4,2), (5,3).
C17_InitialBoardMoves ==
  (call.fn = "getValidMoves" /\ call.before = createInitialBoard)
    => /\ call.before[3][3] = "white" /\ call.before[4][4] = "white"
       /\ call.before[3][4] = "black" /\ call.before[4][3] = "black"
       /\ Cardinality({q \in Rows \X Rows : call.before[q[1]][q[2]] = "empty"}) = 60
       /\ getScore(call.before) = [black |-> 2, white |-> 2]
       /\ Range(call.value) =
            IF call.args.player = "black"
            THEN {Pos(2, 3), Pos(3, 2), Pos(4, 5), Pos(5, 4)}
            ELSE {Pos(2, 4), Pos(3, 5), Pos(4, 2), Pos(5, 3)}

\* C17 witness: getValidMoves for White on the initial board, four moves.
C17_Witness ==
  /\ call.fn = "getValidMoves"
  /\ call.before = createInitialBoard
  /\ call.args.player = "white"
  /\ Len(call.value) = 4

\* The cells of S holding a disc of p.
Held(b, p, S) == Cardinality({q \in S : b[q[1]][q[2]] = p})

\* Held by p minus held by p's opponent.
Lead(b, p, S) == Held(b, p, S) - Held(b, getOpponent(p), S)

Corners == {<<0, 0>>, <<0, 7>>, <<7, 0>>, <<7, 7>>}

\* The cells of the four borders that are not corners.
EdgeCells ==
  {q \in Rows \X Rows : (q[1] \in {0, 7} \/ q[2] \in {0, 7})} \ Corners

\* The cells where p may move under the capture rule.
LegalCells(b, p) ==
  {q \in Rows \X Rows : b[q[1]][q[2]] = "empty" /\ Captured(b, p, q[1], q[2]) # {}}

\* Legal cells of p minus legal cells of p's opponent.
MobilityLead(b, p) ==
  Cardinality(LegalCells(b, p)) - Cardinality(LegalCells(b, getOpponent(p)))

\* The cells diagonally next to a corner, each with its corner.
XSquares ==
  {<< <<1, 1>>, <<0, 0>> >>, << <<1, 6>>, <<0, 7>> >>,
   << <<6, 1>>, <<7, 0>> >>, << <<6, 6>>, <<7, 7>> >>}

\* The pairs of XSquares whose corner is empty and whose cell is held by p.
ExposedXSquares(b, p) ==
  {x \in XSquares : b[x[2][1]][x[2][2]] = "empty" /\ b[x[1][1]][x[1][2]] = p}

\* A call that returns evaluateBoard(board, player) as its score.
Evaluated ==
  /\ call.fn = "minimax"
  /\ call.args.depth = 0

\* C18: the board with a single Black disc on (0,0), evaluated for Black, is
\* worth 51.
C18_CornerDiscWorth51 ==
  (Evaluated /\ call.before = CornerBoard /\ call.args.player = "black")
    => call.value.score = 51

\* C18 as amended: that board, evaluated for Black, is worth 26: 1 for the
\* piece difference and 25 for the corner, nothing for mobility and edges.
C18_CornerDiscWorth26 ==
  (Evaluated /\ call.before = CornerBoard /\ call.args.player = "black")
    => /\ call.value.score = 26
       /\ Lead(call.before, "black", Rows \X Rows) = 1
       /\ MobilityLead(call.before, "black") = 0
       /\ Lead(call.before, "black", EdgeCells) = 0

\* C18 witness: the corner board evaluated for Black.
C18_Witness ==
  /\ Evaluated
  /\ call.before = CornerBoard
  /\ call.args.player = "black"
  /\ call.value.score = 26

\* C19: the corner term of evaluateBoard, what is left of the score once the
\* piece difference, the mobility term and the edge term are taken off, is 25
\* for each corner the player holds less 25 for each the opponent holds.
C19_CornerTermIs25PerCorner ==
  Evaluated =>
    call.value.score
      - Lead(call.before, call.args.player, Rows \X Rows)
      - (5 * MobilityLead(call.before, call.args.player))
      - (5 * Lead(call.before, call.args.player, EdgeCells))
    = (25 * Held(call.before, call.args.player, Corners))
      - (25 * Held(call.before, getOpponent(call.args.player), Corners))

\* C19 witness: an evaluation of a board with a corner of the player, two of
\* the opponent and one empty.
C19_Witness ==
  /\ Evaluated
  /\ Held(call.before, call.args.player, Corners) = 1
  /\ Held(call.before, getOpponent(call.args.player), Corners) = 2
  /\ Held(call.before, "empty", Corners) = 1

\* C20: evaluateBoard has a term that takes 30 off for each cell diagonally
\* next to an empty corner that the player holds and adds 30 for each the
\* opponent holds.
C20_XSquareTermIncluded ==
  Evaluated =>
    call.value.score
    = Lead(call.before, call.args.player, Rows \X Rows)
      + (25 * Lead(call.before, call.args.player, Corners))
      + (5 * MobilityLead(call.before, call.args.player))
      + (5 * Lead(call.before, call.args.player, EdgeCells))
      - (30 * Cardinality(ExposedXSquares(call.before, call.args.player)))
      + (30 * Cardinality(ExposedXSquares(call.before, getOpponent(call.args.player))))

\* C20 as amended: evaluateBoard has no such term: where a cell diagonally
\* next to an empty corner is held, the score is still the sum of the piece
\* difference, the corner, the mobility and the edge terms alone.
C20_NoXSquareTerm ==
  (Evaluated /\ (ExposedXSquares(call.before, "black") # {}
                  \/ ExposedXSquares(call.before, "white") # {}))
    => call.value.score
       = Lead(call.before, call.args.player, Rows \X Rows)
         + (25 * Lead(call.before, call.args.player, Corners))
         + (5 * MobilityLead(call.before, call.args.player))
         + (5 * Lead(call.before, call.args.player, EdgeCells))

\* C20 witness: an evaluation for White of the board where White holds (1,1)
\* and the corner (0,0) is empty.
C20_Witness ==
  /\ Evaluated
  /\ call.before = BlockedBoard
  /\ call.args.player = "white"
  /\ <<<<1, 1>>, <<0, 0>>>> \in ExposedXSquares(call.before, "white")

\* C21: the mobility term of evaluateBoard, what is left of the score once the
\* piece difference, the corner term and the edge term are taken off, is 5
\* times the player's number of legal moves less the opponent's, on every
\* board evaluated.
C21_MobilityTermIs5PerMove ==
  Evaluated =>
    call.value.score
      - Lead(call.before, call.args.player, Rows \X Rows)
      - (25 * Lead(call.before, call.args.player, Corners))
      - (5 * Lead(call.before, call.args.player, EdgeCells))
    = 5 * (Cardinality(LegalCells(call.before, call.args.player))
           - Cardinality(LegalCells(call.before, getOpponent(call.args.player))))

\* C21 witness: an evaluation of a board where both sides have legal moves
\* and the player has fewer of them than the opponent.
C21_Witness ==
  /\ Evaluated
  /\ LegalCells(call.before, call.args.player) # {}
  /\ MobilityLead(call.before, call.args.player) < 0

\* A call of the move-rating flow for a player with a legal move.
RatedCall ==
  /\ call.fn = "rateMove"
  /\ Len(call.value.validMoves) > 0

\* The played move is one of the legal moves.
PlayedLegal == call.args.move \in Range(call.value.validMoves)

\* search(applyMove(board, player, m), max(depth - 1, 1), maximizing = false,
\* perspective = player).score for the move m = (row, col).
ValueForPlayer(b, player, difficulty, row, col) ==
  minimax(applyMove(b, player, row, col).value,
          IF difficulty - 1 > 1 THEN difficulty - 1 ELSE 1,
          FALSE, player, -Infinity, Infinity).score

\* C22: in the move-rating flow the value of each legal move, and of the
\* played move, is the score of the search of the board after the move to
\* depth max(difficulty - 1, 1) with the opponent to move and the rated
\* player as perspective, and worst is the least of the legal moves' values.
C22_MoveValuesFromThePlayersPerspective ==
  RatedCall =>
    /\ \A i \in 1 .. Len(call.value.validMoves) :
         call.value.moveScores[i]
         = ValueForPlayer(call.before, call.args.player, call.args.difficulty,
                          call.value.validMoves[i].row, call.value.validMoves[i].col)
    /\ PlayedLegal =>
         call.value.evaluationOfPlayerMove
         = ValueForPlayer(call.before, call.args.player, call.args.difficulty,
                          call.args.move.row, call.args.move.col)
    /\ call.value.worstScore = SetMin(Range(call.value.moveScores))

\* C23: the flow's rating is an integer of 0 .. 5: 0 exactly when the player
\* has no legal move on the board, and within 1 .. 5 otherwise, whatever the
\* move played and however the three scores lie.
C23_RatingWithinZeroToFive ==
  call.fn = "rateMove" =>
    /\ call.value.rating \in 0 .. 5
    /\ call.value.rating = 0 <=> LegalCells(call.before, call.args.player) = {}

\* C23 witness: a rating of a move whose value lies above bestScore, brought
\* back to 5.
C23_Witness ==
  /\ RatedCall
  /\ call.value.bestScore > call.value.worstScore
  /\ call.value.evaluationOfPlayerMove > call.value.bestScore
  /\ call.value.rating = 5

\* C24: when bestScore equals worstScore and the player has a legal move, the
\* rating is 5 whichever move was played.
C24_EqualScoresRateFive ==
  (RatedCall /\ call.value.bestScore = call.value.worstScore)
    => call.value.rating = 5

\* C24 witness: a legal move rated on a board where bestScore equals
\* worstScore.
C24_Witness ==
  /\ RatedCall
  /\ PlayedLegal
  /\ call.value.bestScore = call.value.worstScore

\* C27: the move minimax(board, difficulty, true, player) returns as best is
\* rated 5 by the flow.
C27_BestMoveRatedFive ==
  (RatedCall
   /\ call.args.move
      = minimax(call.before, call.args.difficulty, TRUE, call.args.player,
                -Infinity, Infinity).move)
    => call.value.rating = 5

\* C25: a search with a depth of 0 or more comes back without an exception,
\* and the chain of recursive calls below it is never longer than depth.
C25_SearchEndsWithinItsDepth ==
  (call.fn = "minimax" /\ call.args.depth >= 0)
    => /\ ~call.threw
       /\ call.nesting <= call.args.depth

\* C25 witness: a search of depth 2 whose recursion went two calls deep.
C25_Witness ==
  /\ call.fn = "minimax"
  /\ call.args.depth = 2
  /\ call.nesting = 2
  /\ ~call.threw

\* p has a legal move on b, by the capture rule.
CanMove(b, p) == LegalCells(b, p) # {}

Playing == game.gameState = "playing"

\* Neither Black nor White has a legal move on b.
NoMoveLeft(b) == ~CanMove(b, "black") /\ ~CanMove(b, "white")

\* A game in progress whose player to move has no legal move.
Stuck == Playing /\ ~CanMove(board, game.currentPlayer)

RECURSIVE ReplayFrom(_, _, _)

\* The next move of the history is played once the board so far is known.
ReplayOn(history, i, b) ==
  IF b \in {b} THEN ReplayFrom(history, i, b) ELSE b

\* The board b with the moves of history[i ..] played on it.
ReplayFrom(history, i, b) ==
  IF i > Len(history) THEN b
  ELSE ReplayOn(history, i + 1,
                applyMove(b, history[i].player, history[i].move.row,
                          history[i].move.col).value)

\* The initial board with the moves of the history after its first entry
\* played on it.
Replay(history) == ReplayFrom(history, 2, createInitialBoard)

\* The player to move after the moves of history on board b: Black at the
\* start, else the opponent of the last mover, or the last mover again when
\* the opponent has no move.
ToMove(history, b) ==
  IF Len(history) <= 1 THEN "black"
  ELSE IF CanMove(b, getOpponent(history[Len(history)].player))
  THEN getOpponent(history[Len(history)].player)
  ELSE history[Len(history)].player

\* C26: a game in progress becomes 'gameOver' only on a board where neither
\* player has a legal move, is never 'gameOver' on a board where one has, and
\* once neither has a move it does become 'gameOver'.
C26_GameOverWhenAndOnlyWhenNoMoveLeft ==
  /\ [][(game.gameState # "gameOver" /\ game'.gameState = "gameOver")
          => (game.gameState = "playing" /\ NoMoveLeft(board'))]_vars
  /\ [](game.gameState = "gameOver" => NoMoveLeft(board))
  /\ ((Playing /\ NoMoveLeft(board)) ~> (game.gameState = "gameOver"))

\* C26 witness: a game played on to a board without a legal move and over.
C26_Witness ==
  /\ game.gameState = "gameOver"
  /\ nMoves > 0
  /\ NoMoveLeft(board)

\* C28: when the timer of the AI effect applies its move, the board and the
\* current player are those the move was computed for.
C28_AiMoveAppliedToItsOwnPosition ==
  [][(game.timer # null /\ game'.timer = null
      /\ Len(game'.history) = Len(game.history) + 1)
       => (game.timer.board = board
           /\ game.timer.currentPlayer = game.currentPlayer)]_vars

\* C29: in a game in progress, once the effects have run, the board is the
\* initial board with the moves of the history after its first entry played
\* on it, and currentPlayer is the player to move there.
C29_BoardIsTheHistoryReplayed ==
  (Playing /\ ~game.dirty /\ Len(game.history) >= 1)
    => /\ board = Replay(game.history)
       /\ game.currentPlayer = ToMove(game.history, board)

\* C30: from a game in progress whose player to move has no legal move while
\* the opponent has one, the next step hands the turn to the opponent and
\* leaves board and history as they are; and no game in progress stays for
\* ever with a player to move who has no move.
C30_TurnPassesFromAPlayerWithoutMove ==
  /\ [][(Stuck /\ CanMove(board, getOpponent(game.currentPlayer)))
          => (/\ game'.currentPlayer = getOpponent(game.currentPlayer)
              /\ game'.gameState = "playing"
              /\ board' = board
              /\ game'.history = game.history)]_vars
  /\ (Stuck ~> ~Stuck)

\* C30 witness: the last mover is to move again on the board its move made,
\* the opponent having no legal move there.
C30_Witness ==
  /\ Playing
  /\ ~game.dirty
  /\ Len(game.history) > 1
  /\ game.currentPlayer = game.history[Len(game.history)].player
  /\ board = applyMove(game.history[Len(game.history)].board,
                       game.history[Len(game.history)].player,
                       game.history[Len(game.history)].move.row,
                       game.history[Len(game.history)].move.col).value
  /\ ~CanMove(board, getOpponent(game.currentPlayer))
  /\ CanMove(board, game.currentPlayer)

=============================================================================
